---- MODULE Spec2Model ----
(***************************************************************************)
(* Model of inky-stocks (src/stocks_common.py): the session window chosen  *)
(* by fetch_market_data and the threshold-segmented chart drawn by         *)
(* plot_graph.                                                             *)
(*                                                                         *)
(* Prices are integers and every division is kept as an exact fraction     *)
(* <<numerator, denominator>>; pyplot's figure registry and the temporary  *)
(* image file are the process-wide state plot_graph works through.         *)
(***************************************************************************)
EXTENDS Integers, Sequences, FiniteSets, TLC

VARIABLES
    data,           \* fetch_market_data: the frame yf.download returned
    window,         \* fetch_market_data: the frame `data` after lines 53-57
    market_data,    \* fetch_market_data: the dict it returns
    fetch_pc,       \* fetch_market_data: "call", "returned" or the exception
    symbols,        \* fetch_multiple: the symbols asked for
    responses,      \* fetch_multiple: what yfinance answers, fetch by fetch
    results,        \* fetch_multiple: the list it returns
    args,           \* plot_graph, per caller: its arguments
    pc,             \* plot_graph, per caller: its position
    todo,           \* plot_graph, per caller: the pyplot calls still to make
    divisions,      \* plot_graph, per caller: the divisions it evaluated
    result,         \* plot_graph, per caller: the image returned, if any
    figs,           \* pyplot: the open figures, the current one last
    tmpfile         \* the file at temp_path: its content, or NoValue

vars == <<data, window, market_data, fetch_pc, symbols, responses, results,
          args, pc, todo, divisions, result, figs, tmpfile>>

fetch_vars == <<data, window, market_data, fetch_pc,
                symbols, responses, results>>
multi_vars == <<symbols, responses, results>>
plot_vars == <<args, pc, todo, divisions, result, figs, tmpfile>>

(***************************************************************************)
(* Bounds of the model.                                                    *)
(***************************************************************************)
\* calendar dates the downloaded frame may span
NumDays == 3
\* most samples on one calendar date
MaxDay == 10
\* longest prices list handed to plot_graph
MaxLen == 7
\* length of the prices list of a concurrent plot_graph call
ConcLen == 2
\* figures left open by failed calls before no further call is made
MaxOpenFigures == 2
\* longest list of symbols handed to fetch_multiple
MaxSymbols == 3

(***************************************************************************)
(* Program constants.                                                      *)
(***************************************************************************)
\* line 53: a latest day of at most this many samples is too short
MinSessionSamples == 8
\* line 54: samples of the earlier days stitched in front of a short day
StitchedTailLength == 16

(***************************************************************************)
(* fetch_market_data                                                       *)
(***************************************************************************)
\* Python's None where a dict, a frame or an image is expected
NoValue == [none |-> TRUE]

\* no exception raised
NoError == "None"

\* The shapes of the close prices over a day's 15-minute slots.
PriceWalks == {"flat", "up", "down", "zig"}

PriceAt(walk, d, k) ==
    CASE walk = "flat" -> 100
      [] walk = "up"   -> 100 + 10 * d + k
      [] walk = "down" -> 200 - 10 * d - k
      [] OTHER         -> IF k % 2 = 0 THEN 110 ELSE 90

\* One calendar date's rows: the index (date, slot of the day) and the Close.
DaySamples(d, n, walk) ==
    [k \in 1..n |-> [date |-> d, slot |-> k, close |-> PriceAt(walk, d, k)]]

\* The frame yf.download returns: rows in time order, count[d] rows on date d.
RECURSIVE Download(_, _, _)
Download(count, walk, d) ==
    IF d = 0 THEN <<>>
    ELSE Download(count, walk, d - 1) \o DaySamples(d, count[d], walk)

\* data.index.date.max()
MaxDate(frame) ==
    CHOOSE d \in {frame[i].date : i \in 1..Len(frame)} :
        \A i \in 1..Len(frame) : frame[i].date <= d

\* tail(n) that keeps one row too many
Tail_n_off_by_one(frame, n) ==
    IF Len(frame) <= n THEN frame
    ELSE SubSeq(frame, Len(frame) - n, Len(frame))

\* DataFrame.tail(n)
Tail_n(frame, n) ==
    IF Len(frame) <= n THEN frame
    ELSE SubSeq(frame, Len(frame) - n + 1, Len(frame))

\* prices[k:], k a 0-based index
Slice_from(s, k) == SubSeq(s, k + 1, Len(s))

\* prices[:k]
Slice_to(s, k) == SubSeq(s, 1, IF k < Len(s) THEN k ELSE Len(s))

\* data[data['date'] == latest_day]
latest_day_data_of(frame) ==
    LET latest_day == MaxDate(frame)
    IN  SelectSeq(frame, LAMBDA row : row.date = latest_day)

\* data[data['date'] < latest_day].tail(16)
previous_day_data_of(frame) ==
    LET latest_day == MaxDate(frame)
    IN  Tail_n(SelectSeq(frame, LAMBDA row : row.date < latest_day),
               StitchedTailLength)

\* lines 53-57 with the threshold one too high
select_window_threshold_off(frame) ==
    IF Len(latest_day_data_of(frame)) <= MinSessionSamples + 1
    THEN previous_day_data_of(frame) \o latest_day_data_of(frame)
    ELSE latest_day_data_of(frame)

\* lines 53-57: the frame that is charted
select_window(frame) ==
    IF Len(latest_day_data_of(frame)) <= MinSessionSamples
    THEN previous_day_data_of(frame) \o latest_day_data_of(frame)
    ELSE latest_day_data_of(frame)

\* lines 59-64 with the index taken from the untrimmed frame
build_market_data_untrimmed(frame, win) ==
    [times  |-> [i \in 1..Len(win) |-> win[i].slot],
     prices |-> [i \in 1..Len(win) |-> win[i].close],
     latest_day_index |-> Len(frame) - Len(latest_day_data_of(frame))]

\* lines 59-64
build_market_data(frame, win) ==
    [times  |-> [i \in 1..Len(win) |-> win[i].slot],
     prices |-> [i \in 1..Len(win) |-> win[i].close],
     latest_day_index |-> Len(win) - Len(latest_day_data_of(frame))]

\* _prepare_market_data raises IndexError on an empty latest day
prepare_raises(md) == Len(Slice_from(md.prices, md.latest_day_index)) = 0

prepare_market_data(md) ==
    LET latest_day == Slice_from(md.prices, md.latest_day_index)
        n == Len(latest_day)
    IN  [times |-> md.times,
         prices |-> md.prices,
         latest_day_index |-> md.latest_day_index,
         is_up |-> IF n > 1 THEN latest_day[n] > latest_day[1] ELSE TRUE,
         first_price |-> latest_day[1],
         last_price |-> latest_day[n]]

InitFetch ==
    /\ \E count \in [1..NumDays -> 0..MaxDay], walk \in PriceWalks :
           data = Download(count, walk, NumDays)
    /\ window = NoValue
    /\ market_data = NoValue
    /\ fetch_pc = "call"
    /\ symbols = <<>>
    /\ responses = <<>>
    /\ results = <<>>

\* fetch_market_data with an empty default returned for an empty frame
fetch_market_data_default_on_empty ==
    /\ fetch_pc = "call"
    /\ IF Len(data) = 0
       THEN /\ fetch_pc' = "returned"
            /\ window' = data
            /\ market_data' = [times |-> <<>>, prices |-> <<>>,
                               latest_day_index |-> 0]
       ELSE LET win == select_window(data)
                md == build_market_data(data, win)
            IN  /\ window' = win
                /\ fetch_pc' = "returned"
                /\ market_data' = prepare_market_data(md)
    /\ UNCHANGED <<data, multi_vars, plot_vars>>

fetch_market_data ==
    /\ fetch_pc = "call"
    /\ \/ /\ Len(data) = 0
          /\ fetch_pc' = "ValueError"
          /\ UNCHANGED <<window, market_data>>
       \/ /\ Len(data) > 0
          /\ LET win == select_window(data)
                 md == build_market_data(data, win)
             IN  /\ window' = win
                 /\ IF prepare_raises(md)
                    THEN /\ fetch_pc' = "IndexError"
                         /\ market_data' = NoValue
                    ELSE /\ fetch_pc' = "returned"
                         /\ market_data' = prepare_market_data(md)
    /\ UNCHANGED <<data, multi_vars, plot_vars>>

InitPlotIdle ==
    /\ args = <<>>
    /\ pc = <<>>
    /\ todo = <<>>
    /\ divisions = <<>>
    /\ result = <<>>
    /\ figs = <<>>
    /\ tmpfile = NoValue

InitFetchOnly == InitFetch /\ InitPlotIdle

SpecFetch == InitFetchOnly /\ [][fetch_market_data]_vars

(***************************************************************************)
(* fetch_multiple                                                          *)
(***************************************************************************)
SymbolNames == {"^GSPC", "BTC-USD"}

SymbolLists == UNION {[1..n -> SymbolNames] : n \in 0..MaxSymbols}

\* rows per calendar date of the frames yfinance may answer with: none, a
\* latest day alone, a short latest day behind earlier days
ResponseCounts ==
    {[d \in 1..NumDays |-> 0],
     [d \in 1..NumDays |-> IF d = NumDays THEN 3 ELSE 0],
     [d \in 1..NumDays |-> 2]}

\* str(e) of an exception: its message, which may be empty
Text(parts) == [str |-> parts]

\* What one fetch meets: a frame, or an exception raised inside yfinance
\* (lines 36-45), one with a message and one without.
Responses ==
    {[raises |-> NoError, text |-> Text(<<>>),
      frame |-> Download(c, "up", NumDays)] : c \in ResponseCounts}
    \cup {[raises |-> "ConnectionError",
           text |-> Text(<<"Failed to connect">>), frame |-> <<>>],
          [raises |-> "Exception", text |-> Text(<<>>), frame |-> <<>>]}

\* lines 26-65: fetch_market_data(symbol) as a value, given what yfinance
\* answers: the dict returned, or the exception raised and its str()
fetch_market_data_of(symbol, response) ==
    IF response.raises # NoError
    THEN [raised |-> response.raises, text |-> response.text,
          value |-> NoValue]
    ELSE IF Len(response.frame) = 0
    THEN [raised |-> "ValueError",
          text |-> Text(<<"No market data available for ", symbol, ".">>),
          value |-> NoValue]
    ELSE IF prepare_raises(build_market_data(response.frame,
                                             select_window(response.frame)))
    THEN [raised |-> "IndexError",
          text |-> Text(<<"list index out of range">>), value |-> NoValue]
    ELSE [raised |-> NoError, text |-> Text(<<>>),
          value |-> prepare_market_data(
                        build_market_data(response.frame,
                                          select_window(response.frame)))]

\* lines 71-83: the try statement of one iteration
result_entry(symbol, fetched) ==
    IF fetched.raised = NoError
    THEN [symbol |-> symbol, data |-> fetched.value, error |-> NoValue]
    ELSE [symbol |-> symbol, data |-> NoValue, error |-> fetched.text]

\* lines 69-84 with the loop left at the first exception
RECURSIVE results_until_failure(_, _, _)
results_until_failure(syms, resps, i) ==
    IF i > Len(syms) THEN <<>>
    ELSE IF fetch_market_data_of(syms[i], resps[i]).raised # NoError
    THEN <<result_entry(syms[i], fetch_market_data_of(syms[i], resps[i]))>>
    ELSE <<result_entry(syms[i], fetch_market_data_of(syms[i], resps[i]))>>
         \o results_until_failure(syms, resps, i + 1)

\* lines 69-84: the loop over the symbols, from the i-th on
RECURSIVE results_from(_, _, _)
results_from(syms, resps, i) ==
    IF i > Len(syms) THEN <<>>
    ELSE <<result_entry(syms[i], fetch_market_data_of(syms[i], resps[i]))>>
         \o results_from(syms, resps, i + 1)

InitMulti ==
    /\ \E syms \in SymbolLists :
         \E resps \in [1..Len(syms) -> Responses] :
            /\ symbols = syms
            /\ responses = resps
    /\ results = NoValue
    /\ data = <<>>
    /\ window = NoValue
    /\ market_data = NoValue
    /\ fetch_pc = "call"

\* lines 68-84
fetch_multiple ==
    /\ fetch_pc = "call"
    /\ results' = results_from(symbols, responses, 1)
    /\ fetch_pc' = "returned"
    /\ UNCHANGED <<data, window, market_data, symbols, responses, plot_vars>>

InitMultiOnly == InitMulti /\ InitPlotIdle

SpecMulti == InitMultiOnly /\ [][fetch_multiple]_vars

(***************************************************************************)
(* plot_graph: arithmetic                                                  *)
(***************************************************************************)
Abs(n) == IF n < 0 THEN -n ELSE n

RECURSIVE GCD(_, _)
GCD(a, b) == IF b = 0 THEN a ELSE GCD(b, a % b)

\* The fraction n/d (d # 0) in lowest terms with a positive denominator.
Frac(n, d) ==
    LET g == GCD(Abs(n), Abs(d))
        sign == IF d < 0 THEN -1 ELSE 1
    IN  <<sign * (n \div g), Abs(d) \div g>>

Whole(n) == <<n, 1>>

\* Python's a / b
Divide(a, b) == IF b = 0 THEN "ZeroDivisionError" ELSE Frac(a, b)

\* x_start + ratio
AddWhole(n, ratio) == Frac(n * ratio[2] + ratio[1], ratio[2])

\* range(a, b) as x coordinates
Range(a, b) == [k \in 1..(IF b > a THEN b - a ELSE 0) |-> Whole(a + k - 1)]

(***************************************************************************)
(* plot_graph: the pyplot calls of lines 128-188                           *)
(***************************************************************************)
\* plt.plot(xs, ys, color=..., linewidth=line_width)
Plot(xs, ys, color) ==
    [kind |-> "plot", xs |-> xs, ys |-> ys, color |-> color]

\* plt.axvline(x=..., color='black', linestyle='--', linewidth=line_width)
Axvline(x) ==
    [kind |-> "axvline", xs |-> <<Whole(x)>>, ys |-> <<>>, color |-> "black"]

NoCalls == [plots |-> <<>>, divs |-> <<>>, raised |-> NoError]

\* lines 148-160 with the ratio measured from the far end of the pair
crossing_segment_from_far_end(p, q, start_price, x_start, x_end, upward) ==
    LET ratio == Divide(q - start_price, q - p)
        div == [at |-> x_start, num |-> q - start_price, den |-> q - p]
    IN  IF ratio = "ZeroDivisionError"
        THEN [plots |-> <<>>, divs |-> <<div>>, raised |-> ratio]
        ELSE LET x_intersect == AddWhole(x_start, ratio)
             IN  [plots |->
                     <<IF upward
                       THEN Plot(<<Whole(x_start), x_intersect>>,
                                 <<p, start_price>>, "red")
                       ELSE Plot(<<x_intersect, Whole(x_end)>>,
                                 <<start_price, q>>, "red")>>,
                  divs |-> <<div>>,
                  raised |-> NoError]

\* lines 148-160: the partial red segment of a pair that crosses start_price;
\* `upward` tells which of the two branches is taken
crossing_segment(p, q, start_price, x_start, x_end, upward) ==
    LET ratio == Divide(start_price - p, q - p)
        div == [at |-> x_start, num |-> start_price - p, den |-> q - p]
    IN  IF ratio = "ZeroDivisionError"
        THEN [plots |-> <<>>, divs |-> <<div>>, raised |-> ratio]
        ELSE LET x_intersect == AddWhole(x_start, ratio)
             IN  [plots |->
                     <<IF upward
                       THEN Plot(<<Whole(x_start), x_intersect>>,
                                 <<p, start_price>>, "red")
                       ELSE Plot(<<x_intersect, Whole(x_end)>>,
                                 <<start_price, q>>, "red")>>,
                  divs |-> <<div>>,
                  raised |-> NoError]

\* lines 133-160 with the flat pair tested by <= start_price
segment_step_flat_le(price_data, base_index, start_price, i) ==
    LET p == price_data[i]
        q == price_data[i + 1]
        x_start == base_index + i - 1
        x_end == base_index + i
        full == [plots |-> <<Plot(<<Whole(x_start), Whole(x_end)>>,
                                  <<p, q>>, "red")>>,
                 divs |-> <<>>, raised |-> NoError]
    IN  IF p = q
        THEN (IF p <= start_price THEN full ELSE NoCalls)
        ELSE IF p < start_price /\ q < start_price
        THEN full
        ELSE IF p < start_price /\ q >= start_price
        THEN crossing_segment(p, q, start_price, x_start, x_end, TRUE)
        ELSE IF p >= start_price /\ q < start_price
        THEN crossing_segment(p, q, start_price, x_start, x_end, FALSE)
        ELSE NoCalls

\* lines 133-160 with the upward crossing tested by p <= start_price
segment_step_cross_le(price_data, base_index, start_price, i) ==
    LET p == price_data[i]
        q == price_data[i + 1]
        x_start == base_index + i - 1
        x_end == base_index + i
        full == [plots |-> <<Plot(<<Whole(x_start), Whole(x_end)>>,
                                  <<p, q>>, "red")>>,
                 divs |-> <<>>, raised |-> NoError]
    IN  IF p = q
        THEN (IF p < start_price THEN full ELSE NoCalls)
        ELSE IF p < start_price /\ q < start_price
        THEN full
        ELSE IF p <= start_price /\ q >= start_price
        THEN crossing_segment(p, q, start_price, x_start, x_end, TRUE)
        ELSE IF p >= start_price /\ q < start_price
        THEN crossing_segment(p, q, start_price, x_start, x_end, FALSE)
        ELSE NoCalls

\* lines 133-160: one iteration of the loop of draw_negative_segments, for the
\* pair price_data[i], price_data[i+1] (i counted from 1)
segment_step(price_data, base_index, start_price, i) ==
    LET p == price_data[i]
        q == price_data[i + 1]
        x_start == base_index + i - 1
        x_end == base_index + i
        full == [plots |-> <<Plot(<<Whole(x_start), Whole(x_end)>>,
                                  <<p, q>>, "red")>>,
                 divs |-> <<>>, raised |-> NoError]
    IN  IF p = q
        THEN (IF p < start_price THEN full ELSE NoCalls)
        ELSE IF p < start_price /\ q < start_price
        THEN full
        ELSE IF p < start_price /\ q >= start_price
        THEN crossing_segment(p, q, start_price, x_start, x_end, TRUE)
        ELSE IF p >= start_price /\ q < start_price
        THEN crossing_segment(p, q, start_price, x_start, x_end, FALSE)
        ELSE NoCalls

\* lines 131-160: the loop, from pair i on; an exception ends it
RECURSIVE draw_negative_segments_from(_, _, _, _)
draw_negative_segments_from(price_data, base_index, start_price, i) ==
    IF i > Len(price_data) - 1
    THEN NoCalls
    ELSE LET step == segment_step(price_data, base_index, start_price, i)
         IN  IF step.raised # NoError
             THEN step
             ELSE LET rest == draw_negative_segments_from(
                                  price_data, base_index, start_price, i + 1)
                  IN  [plots |-> step.plots \o rest.plots,
                       divs |-> step.divs \o rest.divs,
                       raised |-> rest.raised]

draw_negative_segments(price_data, base_index, start_price) ==
    draw_negative_segments_from(price_data, base_index, start_price, 1)

\* lines 162-183 with the segmentation run over the whole series
plot_session_whole_series(prices, latest_day_index, three_color) ==
    LET start_price == prices[latest_day_index + 1]
        latest_prices == Slice_from(prices, latest_day_index)
        n == Len(prices)
    IN  IF latest_day_index >= n
        THEN [plots |-> <<>>, divs |-> <<>>, raised |-> "IndexError"]
        ELSE LET previous == Plot(Range(0, latest_day_index + 1),
                                  Slice_to(prices, latest_day_index + 1),
                                  "black")
                 latest == Plot(Range(latest_day_index, n), latest_prices,
                                "black")
                 red == IF three_color
                        THEN draw_negative_segments(prices, 0, start_price)
                        ELSE NoCalls
             IN  [plots |-> (IF latest_day_index > 0
                             THEN <<previous, latest>> ELSE <<latest>>)
                            \o red.plots,
                  divs |-> red.divs, raised |-> red.raised]

\* lines 162-183 with the previous day plotted up to latest_day_index - 1
plot_session_gap(prices, latest_day_index, three_color) ==
    LET start_price == prices[latest_day_index + 1]
        latest_prices == Slice_from(prices, latest_day_index)
        n == Len(prices)
    IN  IF latest_day_index >= n
        THEN [plots |-> <<>>, divs |-> <<>>, raised |-> "IndexError"]
        ELSE IF latest_day_index > 0
        THEN LET previous == Plot(Range(0, latest_day_index),
                                  Slice_to(prices, latest_day_index),
                                  "black")
                 latest == Plot(Range(latest_day_index, n), latest_prices,
                                "black")
                 red == IF three_color
                        THEN draw_negative_segments(latest_prices,
                                 latest_day_index, start_price)
                        ELSE NoCalls
             IN  [plots |-> <<previous, latest>> \o red.plots,
                  divs |-> red.divs, raised |-> red.raised]
        ELSE LET latest == Plot(Range(0, n), prices, "black")
                 red == IF three_color
                        THEN draw_negative_segments(prices, 0, start_price)
                        ELSE NoCalls
             IN  [plots |-> <<latest>> \o red.plots,
                  divs |-> red.divs, raised |-> red.raised]

\* lines 162-183: the branch taken when latest_day_index < len(prices)
plot_session(prices, latest_day_index, three_color) ==
    LET start_price == prices[latest_day_index + 1]
        latest_prices == Slice_from(prices, latest_day_index)
        n == Len(prices)
    IN  IF latest_day_index >= n
        THEN \* line 129: prices[latest_day_index] is out of range
             [plots |-> <<>>, divs |-> <<>>, raised |-> "IndexError"]
        ELSE IF latest_day_index > 0
        THEN LET previous == Plot(Range(0, latest_day_index + 1),
                                  Slice_to(prices, latest_day_index + 1),
                                  "black")
                 latest == Plot(Range(latest_day_index, n), latest_prices,
                                "black")
                 red == IF three_color
                        THEN draw_negative_segments(latest_prices,
                                 latest_day_index, start_price)
                        ELSE NoCalls
             IN  [plots |-> <<previous, latest>> \o red.plots,
                  divs |-> red.divs, raised |-> red.raised]
        ELSE LET latest == Plot(Range(0, n), prices, "black")
                 red == IF three_color
                        THEN draw_negative_segments(prices, 0, start_price)
                        ELSE NoCalls
             IN  [plots |-> <<latest>> \o red.plots,
                  divs |-> red.divs, raised |-> red.raised]

\* line 128 with <= for <
has_start_price_le(prices, latest_day_index) == latest_day_index <= Len(prices)

\* line 128: whether the segmentation branch is entered
has_start_price(prices, latest_day_index) == latest_day_index < Len(prices)

\* lines 187-188 with >= for >
draws_divider_ge(prices, latest_day_index) == latest_day_index >= 0

\* lines 187-188: whether the divider is drawn
draws_divider(prices, latest_day_index) == latest_day_index > 0

\* lines 128-188: every pyplot drawing call of plot_graph, in order
plot_calls(prices, latest_day_index, three_color) ==
    LET lines == IF has_start_price(prices, latest_day_index)
                 THEN plot_session(prices, latest_day_index, three_color)
                 ELSE [plots |-> <<Plot(Range(0, Len(prices)), prices,
                                        "black")>>,
                       divs |-> <<>>, raised |-> NoError]
    IN  IF lines.raised # NoError
        THEN lines
        ELSE [plots |-> lines.plots \o
                        (IF draws_divider(prices, latest_day_index)
                         THEN <<Axvline(latest_day_index)>> ELSE <<>>),
              divs |-> lines.divs, raised |-> NoError]

(***************************************************************************)
(* plot_graph: pyplot's figures and the temporary file                     *)
(***************************************************************************)
\* what rcParams gives a figure pyplot opens on its own: 6.4 x 4.8 in, 100 dpi
DefaultFigureSize == <<640, 480>>

Figure(owner, size) == [owner |-> owner, size |-> size, artists |-> <<>>]

\* line 121 with the current figure taken over when there is one
new_figure_reused(fs, owner, size) ==
    IF Len(fs) = 0 THEN <<Figure(owner, size)>> ELSE fs

\* line 121: plt.figure(figsize=..., dpi=100) opens a figure and makes it
\* the current one
new_figure(fs, owner, size) == Append(fs, Figure(owner, size))

\* plt.gcf(): the current figure, opened first when there is none
with_current(fs) ==
    IF Len(fs) = 0 THEN <<Figure(0, DefaultFigureSize)>> ELSE fs

\* plt.plot / plt.axvline: the artist goes to the current figure
draw_on_current(fs, artist) ==
    LET g == with_current(fs)
    IN  [g EXCEPT ![Len(g)].artists = Append(@, artist)]

RECURSIVE draw_all_on_current(_, _)
draw_all_on_current(fs, artists) ==
    IF Len(artists) = 0 THEN fs
    ELSE draw_all_on_current(draw_on_current(fs, Head(artists)),
                             Tail(artists))

\* line 197: plt.savefig writes the current figure to temp_path
saved_file(fs) ==
    LET g == with_current(fs)
    IN  [size |-> g[Len(g)].size, artists |-> g[Len(g)].artists]

\* line 198: plt.close() closes the current figure, if there is one
close_current(fs) ==
    IF Len(fs) = 0 THEN fs ELSE SubSeq(fs, 1, Len(fs) - 1)

\* lines 199-200: Image.open(temp_path).resize((graph_width, graph_height))
resized_image(file, width, height) ==
    [width |-> width, height |-> height, artists |-> file.artists]

(***************************************************************************)
(* plot_graph called on its own, start to end                              *)
(***************************************************************************)
Callers == {1, 2}

\* the close prices a chart is drawn from
Prices == {100, 110, 120}

\* the graph sizes the displays ask for (stocks_phat.py, stocks_what.py)
GraphSizes == {<<185, 80>>, <<150, 75>>}

PriceLists == UNION {[1..n -> Prices] : n \in 0..MaxLen}

Arguments(prices, latest_day_index, size, three_color) ==
    [prices |-> prices, latest_day_index |-> latest_day_index,
     graph_width |-> size[1], graph_height |-> size[2],
     three_color |-> three_color]

InitFetchIdle ==
    /\ data = <<>>
    /\ window = NoValue
    /\ market_data = NoValue
    /\ fetch_pc = "idle"
    /\ symbols = <<>>
    /\ responses = <<>>
    /\ results = <<>>

InitPlot ==
    /\ \E prices \in PriceLists, size \in GraphSizes, three_color \in BOOLEAN :
         \E latest_day_index \in 0..Len(prices) :
           args = [t \in Callers |->
                     IF t = 1
                     THEN Arguments(prices, latest_day_index, size, three_color)
                     ELSE NoValue]
    /\ pc = [t \in Callers |-> IF t = 1 THEN "call" ELSE "idle"]
    /\ todo = [t \in Callers |-> <<>>]
    /\ divisions = [t \in Callers |-> <<>>]
    /\ result = [t \in Callers |-> NoValue]
    /\ figs = <<>>
    /\ tmpfile = NoValue

\* lines 105-204, run without interruption by caller t
plot_graph(t) ==
    /\ pc[t] = "call"
    /\ LET a == args[t]
           calls == plot_calls(a.prices, a.latest_day_index, a.three_color)
           opened == new_figure(figs, t, <<a.graph_width, a.graph_height>>)
           drawn == draw_all_on_current(opened, calls.plots)
       IN  /\ divisions' = [divisions EXCEPT ![t] = calls.divs]
           /\ IF calls.raised # NoError
              THEN \* the exception leaves plot_graph before line 195
                   /\ pc' = [pc EXCEPT ![t] = calls.raised]
                   /\ figs' = drawn
                   /\ UNCHANGED <<result, tmpfile>>
              ELSE /\ pc' = [pc EXCEPT ![t] = "returned"]
                   /\ figs' = close_current(drawn)
                   /\ result' = [result EXCEPT ![t] =
                          resized_image(saved_file(drawn),
                                        a.graph_width, a.graph_height)]
                   \* the finally clause removes the file savefig wrote
                   /\ tmpfile' = NoValue
    /\ UNCHANGED <<todo, args, fetch_vars>>

NextPlot == \E t \in Callers : plot_graph(t)

InitPlotOnly == InitFetchIdle /\ InitPlot

SpecPlot == InitPlotOnly /\ [][NextPlot]_vars

(***************************************************************************)
(* plot_graph called by two threads at once: one step per pyplot, PIL or   *)
(* os call, all of them on the process-wide figures and the one temp_path  *)
(***************************************************************************)
\* the prices of a concurrent call
ConcPrices == {100, 110}

ConcPriceLists == [1..ConcLen -> ConcPrices]

InitConc ==
    /\ \E prices \in [Callers -> ConcPriceLists],
          size \in [Callers -> GraphSizes] :
           args = [t \in Callers |-> Arguments(prices[t], 0, size[t], TRUE)]
    /\ pc = [t \in Callers |-> "call"]
    /\ todo = [t \in Callers |-> <<>>]
    /\ divisions = [t \in Callers |-> <<>>]
    /\ result = [t \in Callers |-> NoValue]
    /\ figs = <<>>
    /\ tmpfile = NoValue

\* line 121: plt.figure; the calls of lines 128-188 are still to be made
step_figure(t) ==
    /\ pc[t] = "call"
    /\ LET a == args[t]
           calls == plot_calls(a.prices, a.latest_day_index, a.three_color)
       IN  /\ figs' = new_figure(figs, t, <<a.graph_width, a.graph_height>>)
           /\ todo' = [todo EXCEPT ![t] = calls.plots]
           /\ divisions' = [divisions EXCEPT ![t] = calls.divs]
    /\ pc' = [pc EXCEPT ![t] = "draw"]
    /\ UNCHANGED <<args, result, tmpfile, fetch_vars>>

\* lines 139-188: the next plt.plot or plt.axvline, on the current figure
step_draw(t) ==
    /\ pc[t] = "draw"
    /\ Len(todo[t]) > 0
    /\ figs' = draw_on_current(figs, Head(todo[t]))
    /\ todo' = [todo EXCEPT ![t] = Tail(@)]
    /\ UNCHANGED <<args, pc, divisions, result, tmpfile, fetch_vars>>

\* line 197: plt.savefig writes the current figure to temp_path; an exception
\* of lines 128-188 leaves the call before that
step_savefig(t) ==
    /\ pc[t] = "draw"
    /\ Len(todo[t]) = 0
    /\ LET a == args[t]
           calls == plot_calls(a.prices, a.latest_day_index, a.three_color)
       IN  IF calls.raised # NoError
           THEN /\ pc' = [pc EXCEPT ![t] = calls.raised]
                /\ UNCHANGED <<figs, tmpfile>>
           ELSE /\ pc' = [pc EXCEPT ![t] = "close"]
                /\ figs' = with_current(figs)
                /\ tmpfile' = saved_file(figs)
    /\ UNCHANGED <<args, todo, divisions, result, fetch_vars>>

\* line 198: plt.close()
step_close(t) ==
    /\ pc[t] = "close"
    /\ figs' = close_current(figs)
    /\ pc' = [pc EXCEPT ![t] = "open"]
    /\ UNCHANGED <<args, todo, divisions, result, tmpfile, fetch_vars>>

\* lines 199-200: Image.open(temp_path) and resize; FileNotFoundError when
\* the file is not there.  Either way the finally clause comes next.
step_open(t) ==
    /\ pc[t] = "open"
    /\ result' = [result EXCEPT ![t] =
                     IF tmpfile = NoValue
                     THEN NoValue
                     ELSE resized_image(tmpfile, args[t].graph_width,
                                        args[t].graph_height)]
    /\ pc' = [pc EXCEPT ![t] = "finally"]
    /\ UNCHANGED <<args, todo, divisions, figs, tmpfile, fetch_vars>>

\* how the call ends once the finally clause is through
outcome(t) == IF result[t] = NoValue THEN "FileNotFoundError" ELSE "returned"

\* line 203: os.path.exists(temp_path)
step_exists(t) ==
    /\ pc[t] = "finally"
    /\ pc' = [pc EXCEPT ![t] =
                 IF tmpfile = NoValue THEN outcome(t) ELSE "remove"]
    /\ UNCHANGED <<args, todo, divisions, result, figs, tmpfile, fetch_vars>>

\* line 204: os.remove(temp_path); FileNotFoundError when the file has gone
\* since line 203, and the exception replaces the return of line 201
step_remove(t) ==
    /\ pc[t] = "remove"
    /\ IF tmpfile = NoValue
       THEN /\ pc' = [pc EXCEPT ![t] = "FileNotFoundError"]
            /\ result' = [result EXCEPT ![t] = NoValue]
            /\ UNCHANGED tmpfile
       ELSE /\ pc' = [pc EXCEPT ![t] = outcome(t)]
            /\ tmpfile' = NoValue
            /\ UNCHANGED result
    /\ UNCHANGED <<args, todo, divisions, figs, fetch_vars>>

NextConc ==
    \E t \in Callers :
        \/ step_figure(t)
        \/ step_draw(t)
        \/ step_savefig(t)
        \/ step_close(t)
        \/ step_open(t)
        \/ step_exists(t)
        \/ step_remove(t)

InitConcOnly == InitFetchIdle /\ InitConc

SpecConc == InitConcOnly /\ [][NextConc]_vars

(***************************************************************************)
(* plot_graph called again and again, one call after the other; the save   *)
(* and the load of lines 197-200 may fail                                  *)
(***************************************************************************)
\* the prices lists of the calls
SeqPriceLists == {<<100, 110>>, <<110, 100>>, <<110, 100, 110>>}

SeqArguments == {Arguments(p, 0, <<185, 80>>, TRUE) : p \in SeqPriceLists}

\* how lines 197-200 end: both succeed, plt.savefig raises, Image.open raises
IoOutcomes == {"ok", "savefig raises", "open raises"}

InitSeq ==
    /\ args = [t \in Callers |-> NoValue]
    /\ pc = [t \in Callers |-> "idle"]
    /\ todo = [t \in Callers |-> <<>>]
    /\ divisions = [t \in Callers |-> <<>>]
    /\ result = [t \in Callers |-> NoValue]
    /\ figs = <<>>
    /\ tmpfile = NoValue

\* lines 195-204: what the try statement leaves behind and how the call ends.
\* plt.close() is reached only after plt.savefig returned; the finally clause
\* removes the file whenever it exists.
finish_call(drawn, a, io) ==
    IF io = "ok"
    THEN [figs |-> close_current(drawn),
          result |-> resized_image(saved_file(drawn),
                                   a.graph_width, a.graph_height),
          pc |-> "returned"]
    ELSE IF io = "savefig raises"
    THEN [figs |-> with_current(drawn), result |-> NoValue, pc |-> "OSError"]
    ELSE [figs |-> close_current(drawn), result |-> NoValue,
          pc |-> "UnidentifiedImageError"]

\* lines 121-188: the figure opened and drawn on
drawn_figures(fs, t, a, calls) ==
    draw_all_on_current(
        new_figure(fs, t, <<a.graph_width, a.graph_height>>), calls.plots)

\* lines 105-204: an exception of lines 128-188 leaves before the try
end_of_call(drawn, a, io, calls) ==
    IF calls.raised # NoError
    THEN [figs |-> drawn, result |-> NoValue, pc |-> calls.raised]
    ELSE finish_call(drawn, a, io)

\* lines 105-204, run without interruption in slot t
call_plot_graph(t) ==
    /\ Len(figs) < MaxOpenFigures
    /\ \E a \in SeqArguments, io \in IoOutcomes :
         \E calls \in {plot_calls(a.prices, a.latest_day_index,
                                  a.three_color)} :
           \E end \in {end_of_call(drawn_figures(figs, t, a, calls),
                                    a, io, calls)} :
             /\ args' = [args EXCEPT ![t] = a]
             /\ divisions' = [divisions EXCEPT ![t] = calls.divs]
             /\ pc' = [pc EXCEPT ![t] = end.pc]
             /\ result' = [result EXCEPT ![t] = end.result]
             /\ figs' = end.figs
             /\ tmpfile' = NoValue
    /\ UNCHANGED <<todo, fetch_vars>>

NextSeq == \E t \in Callers : call_plot_graph(t)

InitSeqOnly == InitFetchIdle /\ InitSeq

SpecSeq == InitSeqOnly /\ [][NextSeq]_vars

(***************************************************************************)
(* Claims about fetch_market_data, checked under SpecFetch.                *)
(***************************************************************************)
\* The calendar date of the last sample of a frame kept in time order.
LastDate(frame) == frame[Len(frame)].date

\* The number of samples of a frame that fall before its last date.
PriorCount(frame) ==
    Cardinality({i \in 1..Len(frame) : frame[i].date < LastDate(frame)})

\* The samples of the last date, and those before it, in the frame's order.
LatestDayPortion(frame) == SubSeq(frame, PriorCount(frame) + 1, Len(frame))
PriorPortion(frame) == SubSeq(frame, 1, PriorCount(frame))

Min(a, b) == IF a < b THEN a ELSE b

Closes(frame) == [i \in 1..Len(frame) |-> frame[i].close]

\* C1: when the latest calendar day of a non-empty series has more than 8
\* samples, the returned series is exactly the latest-day samples, in order,
\* and latest_day_index is 0.
C1_LongSession ==
    (fetch_pc = "returned" /\ Len(LatestDayPortion(data)) > 8) =>
        /\ window = LatestDayPortion(data)
        /\ market_data.prices = Closes(LatestDayPortion(data))
        /\ market_data.latest_day_index = 0

\* A long latest day that follows earlier days has been windowed.
C1_Witness ==
    /\ fetch_pc = "returned"
    /\ Len(LatestDayPortion(data)) > 8
    /\ PriorCount(data) > 0

\* C2: when the latest day has at most 8 samples and earlier samples exist,
\* the returned series is the last min(16, count(prior)) earlier samples
\* followed by all latest-day samples, and latest_day_index is the number of
\* earlier samples stitched in.
C2_ShortSession ==
    (/\ fetch_pc = "returned"
     /\ Len(LatestDayPortion(data)) <= 8
     /\ PriorCount(data) > 0) =>
        LET stitched == Min(16, PriorCount(data))
            prior == PriorPortion(data)
        IN  /\ window = SubSeq(prior, Len(prior) - stitched + 1, Len(prior))
                            \o LatestDayPortion(data)
            /\ Len(market_data.prices) =
                   stitched + Len(LatestDayPortion(data))
            /\ market_data.prices = Closes(window)
            /\ market_data.latest_day_index = stitched

\* A short latest day behind more than 16 earlier samples has been windowed.
C2_Witness ==
    /\ fetch_pc = "returned"
    /\ Len(LatestDayPortion(data)) <= 8
    /\ PriorCount(data) > 16

\* C3: for a non-empty series in time order the returned window is non-empty
\* and latest_day_index is the position of the first sample of the latest
\* date: 0 <= latest_day_index < len(prices), earlier dates before it, the
\* latest date from it on.
C3_BoundaryIndex ==
    (fetch_pc # "call" /\ Len(data) > 0) =>
        /\ fetch_pc = "returned"
        /\ Len(market_data.prices) > 0
        /\ Len(market_data.prices) = Len(window)
        /\ market_data.latest_day_index >= 0
        /\ market_data.latest_day_index < Len(market_data.prices)
        /\ \A i \in 1..Len(window) :
               IF i <= market_data.latest_day_index
               THEN window[i].date < LastDate(data)
               ELSE window[i].date = LastDate(data)

\* A window that starts with a stitched tail has been returned.
C3_Witness ==
    /\ fetch_pc = "returned"
    /\ market_data.latest_day_index > 0
    /\ market_data.latest_day_index < Len(market_data.prices) - 1

(***************************************************************************)
(* Claims about plot_graph called on its own, checked under SpecPlot.      *)
(***************************************************************************)
\* The call of caller 1: its arguments, by 0-based index as the code has them.
PricesLen == Len(args[1].prices)
PriceOf(i) == args[1].prices[i + 1]
BoundaryIndex == args[1].latest_day_index
ReferencePrice == PriceOf(BoundaryIndex)

Returned == pc[1] = "returned"

\* The artists of the image returned to caller 1.
Artists == result[1].artists
AccentArtists ==
    {Artists[k] : k \in {j \in 1..Len(Artists) : Artists[j].color = "red"}}
BaseLines ==
    {k \in 1..Len(Artists) :
        Artists[k].kind = "plot" /\ Artists[k].color = "black"}
Dividers == {k \in 1..Len(Artists) : Artists[k].kind = "axvline"}

\* Fractions by value: a = b, a <= b.
FracEq(a, b) == a[1] * b[2] = b[1] * a[2]
FracLe(a, b) ==
    IF (a[2] > 0) = (b[2] > 0)
    THEN a[1] * b[2] <= b[1] * a[2]
    ELSE a[1] * b[2] >= b[1] * a[2]

\* The accent artists drawn inside the x-range [i, i+1].
AccentAt(i) ==
    {a \in AccentArtists :
        /\ Len(a.xs) = 2
        /\ FracLe(<<i, 1>>, a.xs[1])
        /\ FracLe(a.xs[2], <<i + 1, 1>>)}

\* The pairs (i, i+1) of the current session.
SessionPairs == {i \in BoundaryIndex..(PricesLen - 2) : i >= 0}

\* The x where the line from (i, p) to (i+1, q) meets r: i + (r - p)/(q - p).
CrossingX(i, p, q, r) == <<i * (q - p) + (r - p), q - p>>

DivisionsAt(i) ==
    {divisions[1][k] : k \in {j \in 1..Len(divisions[1]) :
                                 divisions[1][j].at = i}}

\* C4: a current-session pair that crosses the reference price r evaluates
\* t = (r - p_i)/(p_i+1 - p_i), 0 <= t <= 1, and gets exactly one accent
\* segment, on the side below r: (i, p_i) to (i + t, r) when crossing upward,
\* (i + t, r) to (i + 1, p_i+1) when crossing downward.  Samples (5, 100),
\* (6, 120) with r = 110 give an accent segment that ends at x = 5.5.
C4_CrossingInterpolation ==
    (Returned /\ args[1].three_color /\ BoundaryIndex < PricesLen) =>
        /\ \A i \in SessionPairs :
              LET p == PriceOf(i)
                  q == PriceOf(i + 1)
                  r == ReferencePrice
              IN  /\ (p < r /\ r <= q) =>
                         /\ DivisionsAt(i) =
                               {[at |-> i, num |-> r - p, den |-> q - p]}
                         /\ 0 <= r - p /\ r - p <= q - p
                         /\ Cardinality(AccentAt(i)) = 1
                         /\ \A a \in AccentAt(i) :
                               /\ a.xs[1] = <<i, 1>>
                               /\ FracEq(a.xs[2], CrossingX(i, p, q, r))
                               /\ a.ys = <<p, r>>
                  /\ (q < r /\ r <= p) =>
                         /\ DivisionsAt(i) =
                               {[at |-> i, num |-> r - p, den |-> q - p]}
                         /\ 0 <= p - r /\ p - r <= p - q
                         /\ Cardinality(AccentAt(i)) = 1
                         /\ \A a \in AccentAt(i) :
                               /\ FracEq(a.xs[1], CrossingX(i, p, q, r))
                               /\ a.xs[2] = <<i + 1, 1>>
                               /\ a.ys = <<r, q>>
        /\ (/\ PricesLen >= 7
            /\ BoundaryIndex <= 5
            /\ PriceOf(5) = 100 /\ PriceOf(6) = 120
            /\ ReferencePrice = 110) =>
               AccentAt(5) = {[kind |-> "plot", color |-> "red",
                               xs |-> <<<<5, 1>>, <<11, 2>>>>,
                               ys |-> <<100, 110>>]}

\* The samples (5, 100), (6, 120) have been drawn against r = 110, after a
\* pair that crosses r downward.
C4_Witness ==
    /\ Returned /\ args[1].three_color
    /\ PricesLen >= 7 /\ BoundaryIndex <= 3
    /\ ReferencePrice = 110
    /\ PriceOf(4) = 120 /\ PriceOf(5) = 100 /\ PriceOf(6) = 120

\* C5: a current-session pair of equal prices is drawn whole in the accent
\* colour when the common price is below r and gets no accent otherwise; no
\* division is evaluated for it, and no call divides by zero.
C5_FlatSegment ==
    /\ pc[1] # "ZeroDivisionError"
    /\ \A k \in 1..Len(divisions[1]) : divisions[1][k].den # 0
    /\ (Returned /\ args[1].three_color /\ BoundaryIndex < PricesLen) =>
          \A i \in SessionPairs :
              PriceOf(i) = PriceOf(i + 1) =>
                  /\ DivisionsAt(i) = {}
                  /\ AccentAt(i) =
                        IF PriceOf(i) < ReferencePrice
                        THEN {[kind |-> "plot", color |-> "red",
                               xs |-> <<<<i, 1>>, <<i + 1, 1>>>>,
                               ys |-> <<PriceOf(i), PriceOf(i)>>]}
                        ELSE {}

\* A flat pair below r and a flat pair at r have both been drawn.
C5_Witness ==
    /\ Returned /\ args[1].three_color /\ BoundaryIndex < PricesLen
    /\ \E i, j \in SessionPairs :
          /\ PriceOf(i) = PriceOf(i + 1) /\ PriceOf(i) < ReferencePrice
          /\ PriceOf(j) = PriceOf(j + 1) /\ PriceOf(j) = ReferencePrice
          /\ j > BoundaryIndex

\* C6: in three-colour mode a current-session pair with both prices >= r
\* (equal to r counts as at or above) gets no accent; a session whose prices
\* are all >= r yields no accent segment at all.
C6_NoAccentAtOrAbove ==
    (Returned /\ args[1].three_color /\ BoundaryIndex < PricesLen) =>
        /\ \A i \in SessionPairs :
              (PriceOf(i) >= ReferencePrice /\ PriceOf(i + 1) >= ReferencePrice)
                  => AccentAt(i) = {}
        /\ (\A i \in BoundaryIndex..(PricesLen - 1) :
                PriceOf(i) >= ReferencePrice) => AccentArtists = {}

\* A session that touches r again after rising above it has been drawn.
C6_Witness ==
    /\ Returned /\ args[1].three_color /\ BoundaryIndex < PricesLen
    /\ \A i \in BoundaryIndex..(PricesLen - 1) : PriceOf(i) >= ReferencePrice
    /\ \E i \in SessionPairs :
          /\ PriceOf(i) > ReferencePrice
          /\ PriceOf(i + 1) = ReferencePrice

\* C7: every accent artist lies in the x-range [latest_day_index,
\* len(prices) - 1] and is drawn only when three_color is set.
C7_AccentOnlyInSession ==
    Returned =>
        \A a \in AccentArtists :
            /\ args[1].three_color
            /\ \A k \in 1..Len(a.xs) :
                  /\ FracLe(<<BoundaryIndex, 1>>, a.xs[k])
                  /\ FracLe(a.xs[k], <<PricesLen - 1, 1>>)

\* A session below r has been drawn behind a stitched tail that is below r too.
C7_Witness ==
    /\ Returned /\ args[1].three_color
    /\ BoundaryIndex > 1 /\ BoundaryIndex < PricesLen - 1
    /\ PriceOf(0) < ReferencePrice /\ PriceOf(1) < ReferencePrice
    /\ AccentArtists # {}

\* C8: the divider is drawn at x = latest_day_index if and only if
\* 0 < latest_day_index < len(prices).
C8_DividerIff ==
    Returned =>
        /\ (Dividers # {}) <=>
              (0 < BoundaryIndex /\ BoundaryIndex < PricesLen)
        /\ \A k \in Dividers : Artists[k].xs = <<<<BoundaryIndex, 1>>>>

\* C9: with latest_day_index = len(prices) the call returns an image, in
\* either colour mode, that holds the whole series once in the base colour and
\* no accent; no segmentation is evaluated.
C9_DegenerateSession ==
    (pc[1] # "call" /\ BoundaryIndex = PricesLen) =>
        /\ Returned
        /\ result[1] # NoValue
        /\ divisions[1] = <<>>
        /\ AccentArtists = {}
        /\ Cardinality(BaseLines) = 1
        /\ \A k \in BaseLines :
              /\ Artists[k].ys = args[1].prices
              /\ Len(Artists[k].xs) = PricesLen
              /\ \A j \in 1..PricesLen : Artists[k].xs[j] = <<j - 1, 1>>

\* A series that dips below its first price has been drawn in three-colour
\* mode with no current session.
C9_Witness ==
    /\ Returned /\ args[1].three_color
    /\ PricesLen >= 2 /\ BoundaryIndex = PricesLen
    /\ PriceOf(1) < PriceOf(0)

(***************************************************************************)
(* Claims about concurrent plot_graph calls, checked under SpecConc.       *)
(***************************************************************************)
\* The image plot_graph returns for arguments a when nothing else runs.
ImageOf(a) ==
    [width |-> a.graph_width, height |-> a.graph_height,
     artists |-> plot_calls(a.prices, a.latest_day_index, a.three_color).plots]

Finished(t) == pc[t] \in {"returned", "FileNotFoundError"}

\* C10: of two plot_graph calls running at the same time, each one returns,
\* and returns the raster of its own arguments.
C10_ConcurrentCallsIsolated ==
    \A t \in Callers :
        Finished(t) => (pc[t] = "returned" /\ result[t] = ImageOf(args[t]))

(***************************************************************************)
(* Claims about plot_graph calls made one after the other, checked under   *)
(* SpecSeq.                                                                *)
(***************************************************************************)
\* C11: two calls with identical arguments evaluate the same divisions and
\* return the same image, whatever calls, failed ones included, ran before
\* either of them.
C11_SameArgumentsSameImage ==
    \A t, u \in Callers :
        (pc[t] = "returned" /\ pc[u] = "returned" /\ args[t] = args[u]) =>
            /\ result[t] = result[u]
            /\ divisions[t] = divisions[u]
            /\ result[t].artists =
                  plot_calls(args[t].prices, args[t].latest_day_index,
                             args[t].three_color).plots

\* Two calls with the same arguments have returned while a figure that a
\* failed call with other arguments drew on is still open.
C11_Witness ==
    /\ pc[1] = "returned" /\ pc[2] = "returned"
    /\ args[1] = args[2]
    /\ Len(figs) > 0
    /\ figs[1].artists # result[1].artists

\* C15: once a plot_graph call has returned, or has raised from the save,
\* load or resize step, the temporary file is gone and no figure is left
\* open for the next call.
C15_ResourcesReleased ==
    \A t \in Callers :
        pc[t] \in {"returned", "OSError", "UnidentifiedImageError"} =>
            /\ tmpfile = NoValue
            /\ figs = <<>>

(***************************************************************************)
(* Further claims about fetch_market_data (SpecFetch) and about plot_graph *)
(* called on its own (SpecPlot).                                           *)
(***************************************************************************)
\* C12: for an empty retrieved series fetch_market_data raises ValueError
\* before any windowing: no window is built and no market data is returned.
C12_EmptySeriesRaises ==
    (fetch_pc # "call" /\ Len(data) = 0) =>
        /\ fetch_pc = "ValueError"
        /\ window = NoValue
        /\ market_data = NoValue

\* An empty series has been fetched.
C12_Witness == fetch_pc # "call" /\ Len(data) = 0

\* C13: a one-element prices list with latest_day_index = 0 yields, in
\* either colour mode, an image of the requested width and height with no
\* divider and no accent segment; the call does not raise.
C13_SingleSample ==
    (pc[1] # "call" /\ PricesLen = 1 /\ BoundaryIndex = 0) =>
        /\ Returned
        /\ result[1].width = args[1].graph_width
        /\ result[1].height = args[1].graph_height
        /\ Dividers = {}
        /\ AccentArtists = {}

\* A single sample has been drawn in three-colour mode.
C13_Witness ==
    /\ Returned /\ PricesLen = 1 /\ BoundaryIndex = 0
    /\ args[1].three_color

\* A base-colour line joins sample i to sample i + 1.
BaseCovers(i) ==
    \E k \in BaseLines :
        \E j \in 1..(Len(Artists[k].xs) - 1) :
            /\ Artists[k].xs[j] = <<i, 1>>
            /\ Artists[k].xs[j + 1] = <<i + 1, 1>>
            /\ Artists[k].ys[j] = PriceOf(i)
            /\ Artists[k].ys[j + 1] = PriceOf(i + 1)

\* C14: for every prices list, every latest_day_index in 0..len(prices) and
\* both colour modes, each adjacent pair of samples is joined by a
\* base-colour line, the pair across the boundary included.
C14_BasePolylineContinuous ==
    Returned => \A i \in 0..(PricesLen - 2) : BaseCovers(i)

\* A series with a stitched tail and a current session of several samples
\* has been drawn.
C14_Witness ==
    /\ Returned
    /\ BoundaryIndex > 1 /\ BoundaryIndex < PricesLen - 1
    /\ PriceOf(BoundaryIndex - 1) # PriceOf(BoundaryIndex)

(***************************************************************************)
(* Claims about fetch_multiple, checked under SpecMulti.                   *)
(***************************************************************************)
\* The i-th fetch succeeds: yfinance raises nothing and answers with rows.
FetchSucceeds(i) ==
    responses[i].raises = NoError /\ Len(responses[i].frame) > 0

====
